---- MODULE Spec2Model ----
(***************************************************************************)
(* convert-font.py: load a font with fontTools' TTFont, clear its flavor,  *)
(* save it at the destination path and print a confirmation line.          *)
(*                                                                         *)
(* One behaviour of the model is one run of the script.  The state is the  *)
(* interpreter's position, the script's three module-level names, the      *)
(* command line, the file system, standard output and the exit status.     *)
(* Each action is one statement of the script.  The calls into fontTools   *)
(* are modelled by what they do to a font container: TTFont(path) opens    *)
(* and decodes the container, font.save(path) encodes the handle under its *)
(* current flavor with the tables in the library's canonical order.        *)
(***************************************************************************)
EXTENDS Integers, Sequences, FiniteSets

VARIABLES pc, argv, fs, fs0, woff2_path, ttf_path, font, stdout, err, exitStatus, trace

vars == <<pc, argv, fs, fs0, woff2_path, ttf_path, font, stdout, err, exitStatus, trace>>

-----------------------------------------------------------------------------
(* Bounds of the model. *)

\* most command-line arguments after the script name
MaxArgs == 3
\* table payloads are the numbers 0..MaxData
MaxData == 1

-----------------------------------------------------------------------------
(* The environment: paths, files, command lines. *)

ScriptName == "convert-font.py"

\* a path whose parent directory does not exist: nothing can be opened
\* there, for reading or for writing
NoDirPath == "nodir/c.ttf"

RealPaths == {"a.woff2", "b.ttf"}

Paths == RealPaths \cup {NoDirPath}

\* sfnt table tags, in the order the library writes them
TagOrder == <<"head", "glyf">>

Tags == {TagOrder[i] : i \in 1..Len(TagOrder)}

Data == 0..MaxData

\* the value of font.flavor: Python's None, or the name of a wrapper
None == "None"

Flavors == {None, "woff", "woff2"}

\* a table payload as a wrapped container stores it (zlib for woff, brotli
\* for woff2); a flavor-less container stores the payload itself
Compress(flavor, d) == IF flavor = None THEN <<d>> ELSE <<flavor, d>>

Decompress(flavor, stored) == IF flavor = None THEN stored[1] ELSE stored[2]

\* the table directories of the model: one or two tables, distinct tags,
\* in any physical order
Directories ==
    {<<[tag |-> t, data |-> d]>> : t \in Tags, d \in Data}
    \cup {dir \in {<<[tag |-> t1, data |-> d1], [tag |-> t2, data |-> d2]>> :
                        t1 \in Tags, t2 \in Tags, d1 \in Data, d2 \in Data} :
            dir[1].tag # dir[2].tag}

EncodeTables(flavor, tables) ==
    [i \in 1..Len(tables) |->
        [tag |-> tables[i].tag, data |-> Compress(flavor, tables[i].data)]]

DecodeTables(flavor, body) ==
    [i \in 1..Len(body) |->
        [tag |-> body[i].tag, data |-> Decompress(flavor, body[i].data)]]

\* no directory entry at the path
NoFile == [sig |-> "ENOENT", body |-> <<>>]

\* a file that is no font container (also: a truncated container)
Junk == [sig |-> "junk", body |-> <<>>]

FontFiles == {[sig |-> f, body |-> EncodeTables(f, t)] : f \in Flavors, t \in Directories}

Files == FontFiles \cup {Junk, NoFile}

\* sys.argv: the script name, then 0..MaxArgs arguments.  The script reads
\* two; the arguments after the second are never read and are all NoDirPath.
CommandLines ==
    {<<ScriptName>>}
    \cup (IF MaxArgs >= 1 THEN {<<ScriptName, s>> : s \in Paths} ELSE {})
    \cup {<<ScriptName, s, d>> \o [i \in 1..n |-> NoDirPath] :
            s \in Paths, d \in Paths, n \in 0..(MaxArgs - 2)}

-----------------------------------------------------------------------------
(* The font handle. *)

\* the name font before line 9 has bound it
NoFont == [flavor |-> "unbound", tables |-> <<>>, closed |-> TRUE]

\* the tables of a handle in the library's canonical order
RECURSIVE Reorder(_, _)
Reorder(tables, i) ==
    IF i > Len(TagOrder) THEN <<>>
    ELSE SelectSeq(tables, LAMBDA e : e.tag = TagOrder[i]) \o Reorder(tables, i + 1)

\* TTFont(path): the error it raises, or the handle it returns
TTFontInit(path, files) ==
    LET file == files[path] IN
    IF file = NoFile THEN [error |-> "FileNotFoundError", font |-> NoFont]
    ELSE IF file.sig \notin Flavors THEN [error |-> "TTLibError", font |-> NoFont]
    ELSE [error |-> "",
          font  |-> [flavor |-> file.sig,
                     tables |-> DecodeTables(file.sig, file.body),
                     closed |-> FALSE]]

\* the bytes font.save writes for a handle
Compile(handle) ==
    [sig  |-> handle.flavor,
     body |-> EncodeTables(handle.flavor, Reorder(handle.tables, 1))]

\* the tables of a container, as a set of (tag, payload) pairs: what the
\* container holds modulo its framing
TableData(file) ==
    {<<file.body[i].tag, Decompress(file.sig, file.body[i].data)>> : i \in 1..Len(file.body)}

HandleData(handle) ==
    {<<handle.tables[i].tag, handle.tables[i].data>> : i \in 1..Len(handle.tables)}

-----------------------------------------------------------------------------
(* The run. *)

Steps == <<"args", "load", "clear", "save", "print">>

Init ==
    /\ pc = "line6"
    /\ argv \in CommandLines
    /\ fs \in {f \in [Paths -> Files] : f[NoDirPath] = NoFile}
    /\ fs0 = fs
    /\ woff2_path = ""
    /\ ttf_path = ""
    /\ font = NoFont
    /\ stdout = <<>>
    /\ err = ""
    /\ exitStatus = <<>>
    /\ trace = <<>>

\* Raise under a handler that ends the process quietly: sys.exit(0)
Raise_ExitZero(e) ==
    /\ pc' = "error"
    /\ err' = e
    /\ exitStatus' = <<0>>

\* an exception nothing catches: the interpreter prints the traceback and
\* exits with status 1
Raise(e) ==
    /\ pc' = "error"
    /\ err' = e
    /\ exitStatus' = <<1>>

\* the statement completed: go on with the next line
Goto(line) ==
    /\ pc' = line
    /\ UNCHANGED <<err, exitStatus>>

\* sys.argv[i]
HasArg(i) == i + 1 <= Len(argv)

Arg(i) == argv[i + 1]

\* ReadSource taking the argument before the last: woff2_path = sys.argv[-2]
ReadSource_FromEnd ==
    /\ pc = "line6"
    /\ IF HasArg(1)
       THEN woff2_path' = argv[Len(argv) - 1] /\ Goto("line7")
       ELSE Raise("IndexError") /\ UNCHANGED woff2_path
    /\ UNCHANGED <<argv, fs, fs0, ttf_path, font, stdout, trace>>

\* line 6: woff2_path = sys.argv[1]
ReadSource ==
    /\ pc = "line6"
    /\ IF HasArg(1)
       THEN woff2_path' = Arg(1) /\ Goto("line7")
       ELSE Raise("IndexError") /\ UNCHANGED woff2_path
    /\ UNCHANGED <<argv, fs, fs0, ttf_path, font, stdout, trace>>

\* ReadDest with the index off by one: ttf_path = sys.argv[1]
ReadDest_OffByOne ==
    /\ pc = "line7"
    /\ IF HasArg(1)
       THEN ttf_path' = Arg(1) /\ Goto("line9") /\ trace' = Append(trace, "args")
       ELSE Raise("IndexError") /\ UNCHANGED <<ttf_path, trace>>
    /\ UNCHANGED <<argv, fs, fs0, woff2_path, font, stdout>>

\* line 7: ttf_path = sys.argv[2]
ReadDest ==
    /\ pc = "line7"
    /\ IF HasArg(2)
       THEN ttf_path' = Arg(2) /\ Goto("line9") /\ trace' = Append(trace, "args")
       ELSE Raise("IndexError") /\ UNCHANGED <<ttf_path, trace>>
    /\ UNCHANGED <<argv, fs, fs0, woff2_path, font, stdout>>

\* Load without the path: font = TTFont() makes a new, empty font
Load_NewFont ==
    /\ pc = "line9"
    /\ font' = [flavor |-> None, tables |-> <<>>, closed |-> FALSE]
    /\ Goto("line10")
    /\ trace' = Append(trace, "load")
    /\ UNCHANGED <<argv, fs, fs0, woff2_path, ttf_path, stdout>>

\* line 9: font = TTFont(woff2_path)
Load ==
    /\ pc = "line9"
    /\ LET r == TTFontInit(woff2_path, fs) IN
       IF r.error = ""
       THEN font' = r.font /\ Goto("line10") /\ trace' = Append(trace, "load")
       ELSE Raise(r.error) /\ UNCHANGED <<font, trace>>
    /\ UNCHANGED <<argv, fs, fs0, woff2_path, ttf_path, stdout>>

\* ClearFlavor left out: the handle keeps the flavor it was loaded with
ClearFlavor_Skipped ==
    /\ pc = "line10"
    /\ Goto("line11")
    /\ trace' = Append(trace, "clear")
    /\ UNCHANGED <<argv, fs, fs0, woff2_path, ttf_path, font, stdout>>

\* ClearFlavor with the conversion inverted: font.flavor = "woff2"
ClearFlavor_Woff2 ==
    /\ pc = "line10"
    /\ font' = [font EXCEPT !.flavor = "woff2"]
    /\ Goto("line11")
    /\ trace' = Append(trace, "clear")
    /\ UNCHANGED <<argv, fs, fs0, woff2_path, ttf_path, stdout>>

\* ClearFlavor on a fresh handle: font = TTFont(); font.flavor = None
ClearFlavor_Rebinds ==
    /\ pc = "line10"
    /\ font' = [flavor |-> None, tables |-> <<>>, closed |-> FALSE]
    /\ Goto("line11")
    /\ trace' = Append(trace, "clear")
    /\ UNCHANGED <<argv, fs, fs0, woff2_path, ttf_path, stdout>>

\* line 10: font.flavor = None
ClearFlavor ==
    /\ pc = "line10"
    /\ font' = [font EXCEPT !.flavor = None]
    /\ Goto("line11")
    /\ trace' = Append(trace, "clear")
    /\ UNCHANGED <<argv, fs, fs0, woff2_path, ttf_path, stdout>>

\* Save inside try/except-pass: a failed save goes on to the print
Save_Swallow ==
    /\ pc = "line11"
    /\ \/ /\ ttf_path # NoDirPath
          /\ fs' = [fs EXCEPT ![ttf_path] = Compile(font)]
          /\ trace' = Append(trace, "save")
       \/ /\ ttf_path = NoDirPath
          /\ UNCHANGED <<fs, trace>>
       \/ /\ ttf_path # NoDirPath
          /\ fs' = [fs EXCEPT ![ttf_path] = Junk]
          /\ UNCHANGED trace
    /\ Goto("line12")
    /\ UNCHANGED <<argv, fs0, woff2_path, ttf_path, font, stdout>>

\* line 11: font.save(ttf_path).  The library compiles the font in memory,
\* then opens the destination for writing and writes the bytes: the open
\* fails where the directory is missing, and the write may fail part-way
\* (a full disk), leaving a truncated file.
Save ==
    /\ pc = "line11"
    /\ \/ /\ ttf_path # NoDirPath
          /\ fs' = [fs EXCEPT ![ttf_path] = Compile(font)]
          /\ Goto("line12")
          /\ trace' = Append(trace, "save")
       \/ /\ ttf_path = NoDirPath
          /\ Raise("FileNotFoundError")
          /\ UNCHANGED <<fs, trace>>
       \/ /\ ttf_path # NoDirPath
          /\ fs' = [fs EXCEPT ![ttf_path] = Junk]
          /\ Raise("OSError")
          /\ UNCHANGED trace
    /\ UNCHANGED <<argv, fs0, woff2_path, ttf_path, font, stdout>>

\* Message with the two paths exchanged
Message_Swapped(src, dst) == "Converted " \o dst \o " to " \o src

\* f"Converted {woff2_path} to {ttf_path}"
Message(src, dst) == "Converted " \o src \o " to " \o dst

\* line 12: print(...), then the end of the script: exit status 0
PrintConfirmation ==
    /\ pc = "line12"
    /\ stdout' = Append(stdout, Message(woff2_path, ttf_path))
    /\ pc' = "done"
    /\ exitStatus' = <<0>>
    /\ trace' = Append(trace, "print")
    /\ UNCHANGED <<argv, fs, fs0, woff2_path, ttf_path, font, err>>

Next ==
    \/ ReadSource
    \/ ReadDest
    \/ Load
    \/ ClearFlavor
    \/ Save
    \/ PrintConfirmation

Spec == Init /\ [][Next]_vars

Terminal == {"done", "error"}

-----------------------------------------------------------------------------
(* What a run is about. *)

\* the run was given both paths
TwoPaths == Len(argv) >= 3

\* the file at the source path when the run started
Source == fs0[argv[2]]

\* the file at the destination path now
Output == fs[argv[3]]

\* the handle TTFont returns for the source as it was at the start
Loaded == TTFontInit(argv[2], fs0).font

\* lines 9 to 11 on one file: the bytes written for it
Convert(file) ==
    LET r == TTFontInit("in", [p \in {"in"} |-> file]) IN
    Compile([r.font EXCEPT !.flavor = None])

\* a container as font.save writes it: its tables in canonical order
Canonical(file) == Reorder(file.body, 1) = file.body

-----------------------------------------------------------------------------
(* C1: whatever the flavor of the loaded handle, the handle's flavor is    *)
(* None when save is called, and the file a completed save has written is  *)
(* a flavor-less container.                                                *)
C1_FlavorNoneAtSave ==
    /\ pc = "line11" => font.flavor = None
    /\ pc \in {"line12", "done"} => font.flavor = None /\ fs[ttf_path].sig = None

C1_Witness ==
    /\ pc = "done"
    /\ Source.sig = "woff2"
    /\ Output.sig = None

(* C2: with no argument or one argument the run ends in an IndexError      *)
(* raised while reading the arguments; load and save are never reached and *)
(* the file system is as it was.                                           *)
C2_TooFewArguments ==
    Len(argv) < 3 =>
        /\ pc \in {"line6", "line7", "error"}
        /\ fs = fs0
        /\ font = NoFont
        /\ trace = <<>>
        /\ pc = "error" => err = "IndexError" /\ exitStatus = <<1>>

C2_Witness ==
    /\ Len(argv) = 2
    /\ pc = "error"
    /\ err = "IndexError"

(* C3 as stated: a run given more than two arguments ends in an            *)
(* IndexError with a non-zero status and performs no conversion.           *)
C3_ExtraArgumentsFail ==
    (Len(argv) > 3 /\ pc \in Terminal) =>
        /\ pc = "error"
        /\ err = "IndexError"
        /\ exitStatus # <<0>>

(* C3 as amended: the arguments after the second are ignored.  A run given *)
(* more than two arguments takes the first as source and the second as     *)
(* destination and goes on to load; an IndexError ends exactly the runs    *)
(* given fewer than two arguments.                                         *)
C3_ExtraArgumentsIgnored ==
    /\ (Len(argv) > 3 /\ pc \notin {"line6", "line7"}) =>
            /\ woff2_path = argv[2]
            /\ ttf_path = argv[3]
            /\ err # "IndexError"
    /\ pc \in Terminal => (err = "IndexError" <=> Len(argv) < 3)

C3_Witness ==
    /\ Len(argv) > 3
    /\ pc = "done"
    /\ exitStatus = <<0>>

(* C4: with a source path at which there is no file, the run ends in the   *)
(* FileNotFoundError of the load; save is never reached and no file is     *)
(* created or changed.                                                     *)
C4_MissingSource ==
    (TwoPaths /\ Source = NoFile) =>
        /\ pc \in {"line6", "line7", "line9", "error"}
        /\ fs = fs0
        /\ pc = "error" => err = "FileNotFoundError" /\ trace = <<"args">>

C4_Witness ==
    /\ TwoPaths
    /\ Source = NoFile
    /\ argv[3] \in RealPaths
    /\ pc = "error"
    /\ Output = NoFile

(* C5: a successful run has written exactly one line to standard output,   *)
(* "Converted <source> to <destination>" with the paths as given on the    *)
(* command line; before that, and in a failed run, standard output is      *)
(* empty.                                                                  *)
C5_SuccessMessage ==
    /\ pc = "done" => stdout = <<"Converted " \o argv[2] \o " to " \o argv[3]>>
    /\ (pc = "done" /\ argv[2] = "a.woff2" /\ argv[3] = "b.ttf") =>
            stdout = <<"Converted a.woff2 to b.ttf">>
    /\ pc # "done" => stdout = <<>>

C5_Witness ==
    /\ pc = "done"
    /\ stdout = <<"Converted a.woff2 to b.ttf">>

(* C6: the exit status is 0 exactly when all five steps completed.  A      *)
(* failed step ends the run with status 1 and the error that step raised:  *)
(* IndexError from the argument reads, FileNotFoundError or TTLibError     *)
(* from the load, FileNotFoundError or OSError from the save.              *)
C6_ExitStatus ==
    /\ exitStatus = <<0>> <=> pc = "done"
    /\ exitStatus = <<1>> <=> pc = "error"
    /\ pc \in Terminal => (exitStatus = <<0>> <=> trace = Steps)
    /\ pc \notin Terminal => exitStatus = <<>> /\ err = ""
    /\ pc = "done" => err = ""
    /\ pc = "error" =>
          \/ trace = <<>> /\ err = "IndexError"
          \/ trace = <<"args">> /\ err \in {"FileNotFoundError", "TTLibError"}
          \/ trace = <<"args", "load", "clear">> /\ err \in {"FileNotFoundError", "OSError"}

C6_Witness ==
    /\ pc = "error"
    /\ err = "OSError"
    /\ exitStatus = <<1>>
    /\ Output = Junk

C9_HandleReleased ==
    pc \in Terminal => font.closed

(* C10: the steps complete in the order args, load, clear, save, print,    *)
(* each at most once, and nothing happens after the run has ended; the     *)
(* file system changes only in the save, after a completed load, and       *)
(* standard output changes only in the print, after a completed save; a    *)
(* run that fails has printed nothing.                                     *)
C10_LinearOrder ==
    [][ /\ pc \notin Terminal
        /\ \/ trace' = trace
           \/ Len(trace) < Len(Steps) /\ trace' = Append(trace, Steps[Len(trace) + 1])
        /\ fs' # fs => trace = <<"args", "load", "clear">>
        /\ stdout' # stdout => trace = <<"args", "load", "clear", "save">>
        /\ pc' = "error" => stdout' = <<>> /\ trace' = trace
      ]_vars

C10_Witness ==
    /\ pc = "done"
    /\ trace = Steps
    /\ Len(stdout) = 1
    /\ fs # fs0

====
